---- MODULE Spec2Model ----
(***************************************************************************)
(* voicenest-serverless: the conversation pipeline of                      *)
(* lambdas/voicenest_serverless/handler.py as a state machine.  One        *)
(* handler invocation runs from "start" to "done"; the transcription job,  *)
(* the temporary file and the collaborators' outcomes are the environment. *)
(***************************************************************************)
EXTENDS Integers, Sequences, FiniteSets, TLC

(***************************************************************************)
(* Python values.  None is a sentinel string, so that an optional string   *)
(* stays comparable with a string.                                         *)
(***************************************************************************)
None == "<None>"

(***************************************************************************)
(* str operations used by the handler.                                     *)
(***************************************************************************)
Char(s, i) == SubSeq(s, i, i)

\* s.startswith(p)
StartsWith(s, p) == Len(p) <= Len(s) /\ SubSeq(s, 1, Len(p)) = p

\* sub in s
Contains(s, sub) ==
  \E i \in 1..(Len(s) - Len(sub) + 1) : SubSeq(s, i, i + Len(sub) - 1) = sub

UPPER == "ABCDEFGHIJKLMNOPQRSTUVWXYZ"
LOWER == "abcdefghijklmnopqrstuvwxyz"

LowerChar(c) ==
  IF \E i \in 1..Len(UPPER) : Char(UPPER, i) = c
  THEN Char(LOWER, CHOOSE i \in 1..Len(UPPER) : Char(UPPER, i) = c)
  ELSE c

\* s.lower()
RECURSIVE Lower(_)
Lower(s) ==
  IF s = "" THEN "" ELSE LowerChar(Char(s, 1)) \o Lower(SubSeq(s, 2, Len(s)))

\* s.strip() == "" for a str s: every character is white space
IsBlank(s) == \A i \in 1..Len(s) : Char(s, i) = " "

\* s.strip(): leading and trailing white space removed
RECURSIVE Strip(_)
Strip(s) ==
  IF s = "" THEN ""
  ELSE IF Char(s, 1) = " " THEN Strip(SubSeq(s, 2, Len(s)))
  ELSE IF Char(s, Len(s)) = " " THEN Strip(SubSeq(s, 1, Len(s) - 1))
  ELSE s

\* s.split("-")[0]
SplitHead(s) ==
  IF ~Contains(s, "-") THEN s
  ELSE LET i == CHOOSE k \in 1..Len(s) :
                  Char(s, k) = "-" /\ \A j \in 1..(k - 1) : Char(s, j) # "-"
       IN SubSeq(s, 1, i - 1)

(***************************************************************************)
(* base64.b64encode(...).decode(): three bytes to four characters, "="      *)
(* padding on a last group of one or two bytes.                            *)
(***************************************************************************)
B64ALPHABET == "ABCDEFGHIJKLMNOPQRSTUVWXYZabcdefghijklmnopqrstuvwxyz0123456789+/"

B64Char(n) == Char(B64ALPHABET, n + 1)

RECURSIVE b64encode(_)
b64encode(b) ==
  IF Len(b) = 0 THEN ""
  ELSE IF Len(b) = 1 THEN
    B64Char(b[1] \div 4) \o B64Char((b[1] % 4) * 16) \o "=="
  ELSE IF Len(b) = 2 THEN
    B64Char(b[1] \div 4) \o B64Char((b[1] % 4) * 16 + b[2] \div 16)
      \o B64Char((b[2] % 16) * 4) \o "="
  ELSE
    B64Char(b[1] \div 4) \o B64Char((b[1] % 4) * 16 + b[2] \div 16)
      \o B64Char((b[2] % 16) * 4 + b[3] \div 64) \o B64Char(b[3] % 64)
      \o b64encode(SubSeq(b, 4, Len(b)))

(***************************************************************************)
(* The voice table, a dict: <<key, value>> pairs in insertion order, which *)
(* is the order dict.items() iterates in.                                  *)
(***************************************************************************)
SUPPORTED_POLLY_LANGS == <<
  <<"arb", "Zeina">>, <<"ar-AE", "Hala">>, <<"nl-BE", "Lisa">>, <<"ca-ES", "Arlet">>,
  <<"cs-CZ", "Jitka">>, <<"yue-CN", "Hiujin">>, <<"cmn-CN", "Zhiyu">>, <<"da-DK", "Sofie">>,
  <<"nl-NL", "Lotte">>, <<"en-AU", "Olivia">>, <<"en-GB", "Amy">>, <<"en-IN", "Kajal">>,
  <<"en-IE", "Niamh">>, <<"en-NZ", "Aria">>, <<"en-SG", "Jasmine">>, <<"en-ZA", "Ayanda">>,
  <<"en-US", "Joanna">>, <<"en-GB-WLS", "Geraint">>, <<"fi-FI", "Suvi">>, <<"fr-FR", "Lea">>,
  <<"fr-BE", "Isabelle">>, <<"fr-CA", "Gabrielle">>, <<"de-DE", "Vicki">>, <<"de-AT", "Hannah">>,
  <<"de-CH", "Sabrina">>, <<"hi-IN", "Kajal">>, <<"is-IS", "Dora">>, <<"it-IT", "Bianca">>,
  <<"ja-JP", "Mizuki">>, <<"ko-KR", "Seoyeon">>, <<"nb-NO", "Ida">>, <<"pl-PL", "Maja">>,
  <<"pt-BR", "Vitoria">>, <<"pt-PT", "Ines">>, <<"ro-RO", "Carmen">>, <<"ru-RU", "Tatyana">>,
  <<"es-ES", "Lucia">>, <<"es-MX", "Mia">>, <<"es-US", "Lupe">>, <<"sv-SE", "Elin">>,
  <<"tr-TR", "Burcu">>, <<"cy-GB", "Gwyneth">> >>

\* The accented names are spelled with their code point: L<e9>a is not Lea.
NEURAL_SUPPORTED_VOICES == {
  "Hala", "Zayd", "Lisa", "Arlet", "Jitka", "Hiujin", "Zhiyu", "Sofie",
  "Laura", "Olivia", "Amy", "Emma", "Brian", "Arthur", "Kajal", "Niamh",
  "Aria", "Jasmine", "Ayanda", "Danielle", "Gregory", "Ivy", "Joanna",
  "Kendra", "Kimberly", "Salli", "Joey", "Justin", "Kevin", "Matthew",
  "Ruth", "Stephen", "Suvi", "Isabelle", "Gabrielle", "Liam", "L<e9>a",
  "R<e9>mi", "Vicki", "Daniel", "Hannah", "Sabrina", "Bianca", "Adriano",
  "Takumi", "Kazuha", "Tomoko", "Seoyeon", "Jihye", "Ida", "Ola", "Camila",
  "Vitoria", "Vit<f3>ria", "Thiago", "Ines", "In<ea>s", "Lucia", "Sergio",
  "Mia", "Andr<e9>s", "Lupe", "Pedro", "Elin", "Burcu", "Gwyneth" }

\* dict.keys(), key in dict, dict[key]
DictKeys(table) == {table[i][1] : i \in 1..Len(table)}

DictGet(table, key) == table[CHOOSE i \in 1..Len(table) : table[i][1] = key][2]

SUPPORTED_TRANSLATE_LANGS ==
  {SplitHead(code) : code \in DictKeys(SUPPORTED_POLLY_LANGS)} \cup {"en"}

(***************************************************************************)
(* find_best_voice_match, over any table: <<voice_id, full_code>>, or      *)
(* <<None, None>>.                                                         *)
(***************************************************************************)
NoMatch == <<None, None>>

\* A slip: the loop keeps going, and the last matching key wins.
RECURSIVE PrefixScan_last(_, _, _)
PrefixScan_last(table, lang_code, i) ==
  IF i > Len(table) THEN <<None, None>>
  ELSE IF PrefixScan_last(table, lang_code, i + 1) # <<None, None>>
    THEN PrefixScan_last(table, lang_code, i + 1)
  ELSE IF StartsWith(table[i][1], lang_code \o "-") THEN <<table[i][2], table[i][1]>>
  ELSE <<None, None>>

\* for full_code, voice_id in table.items(): if full_code.startswith(lang_code + "-")
RECURSIVE PrefixScan(_, _, _)
PrefixScan(table, lang_code, i) ==
  IF i > Len(table) THEN NoMatch
  ELSE IF StartsWith(table[i][1], lang_code \o "-") THEN <<table[i][2], table[i][1]>>
  ELSE PrefixScan(table, lang_code, i + 1)

\* for full_code, voice_id in table.items(): if lang_code in full_code
RECURSIVE ContainScan(_, _, _)
ContainScan(table, lang_code, i) ==
  IF i > Len(table) THEN NoMatch
  ELSE IF Contains(table[i][1], lang_code) THEN <<table[i][2], table[i][1]>>
  ELSE ContainScan(table, lang_code, i + 1)

\* A slip: the loose containment loop placed before the prefix loop.
find_best_voice_match_loose_first(table, lang_code) ==
  IF lang_code \in DictKeys(table) THEN <<DictGet(table, lang_code), lang_code>>
  ELSE IF ContainScan(table, lang_code, 1) # NoMatch THEN ContainScan(table, lang_code, 1)
  ELSE PrefixScan(table, lang_code, 1)

find_best_voice_match(table, lang_code) ==
  IF lang_code \in DictKeys(table) THEN <<DictGet(table, lang_code), lang_code>>
  ELSE IF PrefixScan(table, lang_code, 1) # NoMatch THEN PrefixScan(table, lang_code, 1)
  ELSE ContainScan(table, lang_code, 1)

(***************************************************************************)
(* Audio bytes: the first bytes (at most 12, all that the sniffer reads)   *)
(* and the length.                                                         *)
(***************************************************************************)
Slice(b, from, to) ==
  SubSeq(b, from + 1, IF to < Len(b) THEN to ELSE Len(b))

RIFF == <<82, 73, 70, 70>>
WAVE == <<87, 65, 86, 69>>
OGGS == <<79, 103, 103, 83>>
ID3 == <<73, 68, 51>>
MPEG_SYNC == <<255, 251>>

\* A slip: the declared content type consulted before the bytes.
detect_audio_format_type_first(audio_bytes, content_type) ==
  IF content_type # "" /\ Contains(Lower(content_type), "webm")
    THEN <<".webm", "webm">>
  ELSE IF content_type # "" /\ Contains(Lower(content_type), "wav")
    THEN <<".wav", "wav">>
  ELSE IF content_type # "" /\ Contains(Lower(content_type), "ogg")
    THEN <<".ogg", "ogg">>
  ELSE IF content_type # "" /\ Contains(Lower(content_type), "mp3")
    THEN <<".mp3", "mp3">>
  ELSE IF audio_bytes.len >= 12 /\ Slice(audio_bytes.head, 0, 4) = RIFF
            /\ Slice(audio_bytes.head, 8, 12) = WAVE
    THEN <<".wav", "wav">>
  ELSE IF audio_bytes.len >= 12 /\ Slice(audio_bytes.head, 0, 4) = OGGS
    THEN <<".ogg", "ogg">>
  ELSE IF audio_bytes.len >= 12
            /\ (Slice(audio_bytes.head, 0, 3) = ID3
                  \/ Slice(audio_bytes.head, 0, 2) = MPEG_SYNC)
    THEN <<".mp3", "mp3">>
  ELSE <<".webm", "webm">>

\* _detect_audio_format: <<file_extension, media_format>>
detect_audio_format(audio_bytes, content_type) ==
  IF audio_bytes.len >= 12 /\ Slice(audio_bytes.head, 0, 4) = RIFF
       /\ Slice(audio_bytes.head, 8, 12) = WAVE
    THEN <<".wav", "wav">>
  ELSE IF audio_bytes.len >= 12 /\ Slice(audio_bytes.head, 0, 4) = OGGS
    THEN <<".ogg", "ogg">>
  ELSE IF audio_bytes.len >= 12
            /\ (Slice(audio_bytes.head, 0, 3) = ID3
                  \/ Slice(audio_bytes.head, 0, 2) = MPEG_SYNC)
    THEN <<".mp3", "mp3">>
  ELSE IF content_type # "" /\ Contains(Lower(content_type), "webm")
    THEN <<".webm", "webm">>
  ELSE IF content_type # "" /\ Contains(Lower(content_type), "wav")
    THEN <<".wav", "wav">>
  ELSE IF content_type # "" /\ Contains(Lower(content_type), "ogg")
    THEN <<".ogg", "ogg">>
  ELSE IF content_type # "" /\ Contains(Lower(content_type), "mp3")
    THEN <<".mp3", "mp3">>
  ELSE <<".webm", "webm">>

(***************************************************************************)
(* Bounds of the model and constants of the program.                       *)
(***************************************************************************)
\* Longest time, in seconds, one get_transcription_job call may take.
MaxLatency == 1

\* len(audio_bytes) < 100
MIN_AUDIO_BYTES == 100
\* max_wait_time = 300
max_wait_time == 300
\* time.sleep(5)
SLEEP_SECONDS == 5

CANNED_REPLY ==
  "I understand you're sharing something important with me. Thank you for trusting me with your thoughts."

(***************************************************************************)
(* The requests.  A body is described by how it was put on the wire: the   *)
(* text itself ("raw"), base64 text ("b64"), text base64 cannot decode     *)
(* ("badb64"), or no body ("none", "empty").  What it carries is audio     *)
(* bytes, alone or as the part named `field` of a multipart document.      *)
(***************************************************************************)
Zeros(n) == [i \in 1..n |-> 0]

WavHead == RIFF \o Zeros(4) \o WAVE
OggHead == OGGS \o Zeros(8)
NoiseHead == Zeros(12)

Audio(head, len) == [head |-> SubSeq(head, 1, IF len < 12 THEN len ELSE 12), len |-> len]

NoAudio == Audio(<<>>, 0)

Audios ==
  {Audio(h, n) : h \in {WavHead, NoiseHead},
                 n \in {MIN_AUDIO_BYTES - 1, MIN_AUDIO_BYTES}} \cup {NoAudio}

CT_MULTIPART_XYZ == "multipart/form-data; boundary=XYZ"
CT_MULTIPART_NO_BOUNDARY == "multipart/form-data"

HeaderSets ==
  { <<>>,
    << <<"Content-Type", "audio/wav">> >>,
    << <<"content-type", CT_MULTIPART_XYZ>> >>,
    << <<"Content-Type", CT_MULTIPART_NO_BOUNDARY>> >> }

Body(wire, form, boundary, field, audio) ==
  [wire |-> wire, form |-> form, boundary |-> boundary, field |-> field, audio |-> audio]

Bodies ==
  {Body(w, "plain", "", "", NoAudio) : w \in {"none", "empty", "badb64"}}
    \cup {Body(w, "plain", "", "", a) : w \in {"raw", "b64"}, a \in Audios \ {NoAudio}}
    \cup {Body(w, "multipart", "XYZ", f, a) :
            w \in {"raw", "b64"}, f \in {"audio", "file"},
            a \in {Audio(OggHead, MIN_AUDIO_BYTES), Audio(OggHead, MIN_AUDIO_BYTES - 1), NoAudio}}

\* next((v for k, v in headers.items() if k.lower() == "content-type"), "")
ContentTypeOf(headers) ==
  IF \E i \in 1..Len(headers) : Lower(headers[i][1]) = "content-type"
  THEN headers[CHOOSE i \in 1..Len(headers) : Lower(headers[i][1]) = "content-type"][2]
  ELSE ""

\* API Gateway sets isBase64Encoded for the bodies it encoded; a multipart
\* document arrives under a multipart content type.
Events ==
  {e \in [body : Bodies, headers : HeaderSets, isBase64Encoded : BOOLEAN] :
     /\ e.isBase64Encoded = (e.body.wire \in {"b64", "badb64"})
     /\ e.body.form = "multipart" => Contains(ContentTypeOf(e.headers), "multipart/form-data")}

(***************************************************************************)
(* Decoding the body.  A failed decode is <<FALSE, ...>>.                  *)
(***************************************************************************)
\* base64.b64decode(body): the content of base64 text; text that is not
\* base64 raises or yields bytes that are no document.
B64DecodeBody(body) ==
  IF body.wire = "b64" THEN <<TRUE, body>> ELSE <<FALSE, body>>

\* content_type.split('boundary=')[1].strip()
BoundaryParam(content_type) ==
  IF ~Contains(content_type, "boundary=") THEN ""
  ELSE LET i == CHOOSE k \in 1..Len(content_type) :
                  /\ SubSeq(content_type, k, k + 8) = "boundary="
                  /\ \A j \in 1..(k - 1) : SubSeq(content_type, j, j + 8) # "boundary="
       IN Strip(SubSeq(content_type, i + 9, Len(content_type)))

\* parse_multipart_data: the bytes of the part named "audio", or NoAudio (None)
parse_multipart_data(body, content_type) ==
  IF BoundaryParam(content_type) = "" THEN NoAudio
  ELSE IF ~B64DecodeBody(body)[1] THEN NoAudio
  ELSE IF body.form = "multipart" /\ body.boundary = BoundaryParam(content_type)
            /\ body.field = "audio"
    THEN body.audio
  ELSE NoAudio

\* Lines 79-87: <<decoded, audio_bytes>>
DecodeAudio(e, content_type) ==
  IF Contains(content_type, "multipart/form-data")
    THEN <<TRUE, parse_multipart_data(e.body, content_type)>>
  ELSE IF e.isBase64Encoded
    THEN <<B64DecodeBody(e.body)[1], e.body.audio>>
  ELSE <<TRUE, e.body.audio>>

(***************************************************************************)
(* Responses.                                                              *)
(***************************************************************************)
CORS == [origin |-> "*", headers |-> "Content-Type", methods |-> "POST, OPTIONS"]

NoResponse ==
  [statusCode |-> 0, body |-> "", contentType |-> None, xLanguage |-> None, cors |-> CORS]

\* _response(status, message)
ErrorResponse(status, message) ==
  [statusCode |-> status,
   body |-> "{\"message\": \"" \o message \o "\"}",
   contentType |-> "application/json",
   xLanguage |-> None,
   cors |-> CORS]

\* Lines 198-210
AudioResponse(audio_base64, spoken_lang_code) ==
  [statusCode |-> 200,
   body |-> audio_base64,
   contentType |-> "audio/mpeg",
   xLanguage |-> spoken_lang_code,
   cors |-> CORS]

(***************************************************************************)
(* The collaborators' answers.                                             *)
(***************************************************************************)
\* LanguageCode values the detector may answer: bare tags, a region tag.
LangCodes == {"en", "hi", "fr", "hi-IN", "mn", "zh"}

Sentiments == {"POSITIVE", "NEUTRAL"}

\* Transcripts a completed job may hold.
Transcripts == {"", "  ", "hola"}

\* AudioStream bytes Polly may return.
AudioStreams == {<<>>, <<255>>, <<73, 68>>, <<73, 68, 51, 4>>}

\* translate.translate_text(...)["TranslatedText"]
TranslateText(text, source, target) ==
  "[" \o source \o ">" \o target \o "] " \o text

\* result["generations"][0]["text"], before .strip()
GeneratedText(text, sentiment) ==
  " It sounds " \o sentiment \o ": " \o text \o " "

\* tempfile.NamedTemporaryFile(suffix=file_extension, delete=False).name, for
\* the random name the file was created under
TmpFile(name, file_extension) == name \o file_extension

TmpPath(file_extension) == TmpFile("/tmp/tmp0001", file_extension)

\* A slip: one job name for every request.
job_name_fixed(uuid4) == "voicenest-job"

\* f"voicenest-job-{uuid.uuid4()}", for the value uuid4 returned
job_name_of(uuid4) == "voicenest-job-" \o uuid4

JobName == job_name_of("uuid0001")

(***************************************************************************)
(* State.                                                                  *)
(***************************************************************************)
VARIABLES
  COHERE_API_KEY,     \* os.environ.get("PROD_COHERE_API_KEY"), or None
  TRANSCRIBE_BUCKET,  \* os.environ.get("PROD_TRANSCRIBE_BUCKET"), or None
  polly_langs,        \* the voice table in effect, SUPPORTED_POLLY_LANGS
  event,              \* the request
  pc,                 \* where the handler is
  loc,                \* the handler's local variables
  response,           \* what the handler returns
  fs,                 \* the temporary files that exist
  s3_objects,         \* the keys uploaded to the bucket
  job,                \* the transcription job, at the engine
  poll,               \* _get_transcribed_text's local variables and its calls
  poll_outcome,       \* the return statement _get_transcribed_text left by
  translate_calls,    \* the translate_text calls made, in order
  polly_calls,        \* the synthesize_speech calls made, in order
  failures,           \* the collaborator calls that raised
  invocations,        \* the concurrent invocations, when several are followed
  transcribe_jobs,    \* the names of the jobs the engine holds for them
  tmp_bytes           \* what their temporary files hold

\* The module's globals: set at import, never assigned again.
globals == <<COHERE_API_KEY, TRANSCRIBE_BUCKET, polly_langs>>

\* Followed only under PairSpec; one invocation alone leaves them empty.
concurrent == <<invocations, transcribe_jobs, tmp_bytes>>

vars ==
  <<COHERE_API_KEY, TRANSCRIBE_BUCKET, polly_langs, event, pc, loc, response, fs, s3_objects,
    job, poll, poll_outcome, translate_calls, polly_calls, failures, concurrent>>

NoInvocations ==
  /\ invocations = <<>>
  /\ transcribe_jobs = {}
  /\ tmp_bytes = <<>>

NoLocals ==
  [audio_bytes |-> NoAudio, file_extension |-> None, media_format |-> None,
   tmp_audio_path |-> None, job_name |-> None, transcribe_uri |-> None,
   transcript_text |-> None, lang_code |-> None, translated_text |-> None,
   sentiment |-> None, reply |-> None, voice_id |-> None,
   spoken_lang_code |-> None, final_reply |-> None,
   audio_stream |-> <<>>, audio_base64 |-> None]

NoJob == [status |-> "NONE", transcript |-> None]

\* elapsed: time.time() - start_time, in seconds; job_status: the status last
\* read; checks, sleeps, fetches: the calls made so far; doneAt: the elapsed
\* time at which the job ended (-1: it has not).
NoPoll ==
  [elapsed |-> 0, job_status |-> None, checks |-> 0, sleeps |-> 0, fetches |-> 0,
   doneAt |-> -1]

Init ==
  /\ COHERE_API_KEY \in {None, "cohere-key"}
  /\ TRANSCRIBE_BUCKET \in {None, "bucket"}
  /\ polly_langs = SUPPORTED_POLLY_LANGS
  /\ event \in Events
  /\ pc = "start"
  /\ loc = NoLocals
  /\ response = NoResponse
  /\ fs = {}
  /\ s3_objects = {}
  /\ job = NoJob
  /\ poll = NoPoll
  /\ poll_outcome = None
  /\ translate_calls = <<>>
  /\ polly_calls = <<>>
  /\ failures = {}
  /\ NoInvocations

\* return ...: the finally block runs before the handler returns.
Return(r) ==
  /\ response' = r
  /\ pc' = "finally"

(***************************************************************************)
(* Lines 59-94: configuration, body, decoding, size, format.               *)
(***************************************************************************)
\* A slip: only an empty payload is refused.
TooSmall_empty_only(audio_bytes) == audio_bytes = NoAudio

\* if not audio_bytes or len(audio_bytes) < 100
TooSmall(audio_bytes) == audio_bytes = NoAudio \/ audio_bytes.len < MIN_AUDIO_BYTES

CheckRequest ==
  /\ pc = "start"
  /\ LET content_type == ContentTypeOf(event.headers)
         decoded == DecodeAudio(event, content_type)
         audio_bytes == decoded[2]
         format == detect_audio_format(audio_bytes, content_type)
     IN IF COHERE_API_KEY = None
          THEN Return(ErrorResponse(500, "Missing API configuration")) /\ UNCHANGED loc
        ELSE IF TRANSCRIBE_BUCKET = None
          THEN Return(ErrorResponse(500, "Missing bucket configuration")) /\ UNCHANGED loc
        ELSE IF event.body.wire \in {"none", "empty"}
          THEN Return(ErrorResponse(400, "Missing audio data")) /\ UNCHANGED loc
        ELSE IF ~decoded[1]
          THEN Return(ErrorResponse(400, "Invalid audio data format")) /\ UNCHANGED loc
        ELSE IF TooSmall(audio_bytes)
          THEN Return(ErrorResponse(400, "Audio data appears to be invalid or too small"))
                 /\ UNCHANGED loc
        ELSE /\ loc' = [loc EXCEPT !.audio_bytes = audio_bytes,
                                   !.file_extension = format[1],
                                   !.media_format = format[2]]
             /\ pc' = "stage"
             /\ UNCHANGED response
  /\ UNCHANGED <<globals, concurrent, event, fs, s3_objects, job, poll,
                 poll_outcome, translate_calls, polly_calls, failures>>

(***************************************************************************)
(* Lines 96-99: tempfile.NamedTemporaryFile(delete=False), write.  The     *)
(* path is assigned after the write; an exception here reaches the         *)
(* handler's except clause.                                                *)
(***************************************************************************)
\* A slip: no except clause at the handler's end, the exception leaves it.
UnexpectedError_propagates(e) ==
  /\ pc' = "finally"
  /\ UNCHANGED response

\* Lines 212-214: except Exception as e: return _response(500, ...)
UnexpectedError(e) == Return(ErrorResponse(500, "Internal server error: " \o e))

StageAudio ==
  /\ pc = "stage"
  /\ \/ /\ fs' = fs \cup {TmpPath(loc.file_extension)}
        /\ loc' = [loc EXCEPT !.tmp_audio_path = TmpPath(loc.file_extension)]
        /\ pc' = "upload"
        /\ UNCHANGED <<response, failures>>
     \/ \* the write raises: the file was created and its name never recorded
        /\ fs' = fs \cup {TmpPath(loc.file_extension)}
        /\ failures' = failures \cup {"stage"}
        /\ UnexpectedError("write")
        /\ UNCHANGED loc
     \/ \* the file cannot be created
        /\ failures' = failures \cup {"stage"}
        /\ UnexpectedError("create")
        /\ UNCHANGED <<loc, fs>>
  /\ UNCHANGED <<globals, concurrent, event, s3_objects, job, poll,
                 poll_outcome, translate_calls, polly_calls>>

(***************************************************************************)
(* Lines 101-104, 300-321: _upload_and_transcribe.                         *)
(***************************************************************************)
\* A slip: the handler does not test transcribe_uri and goes on to poll.
NoTranscribeUri_unchecked ==
  /\ pc' = "poll_check"
  /\ UNCHANGED response

\* Lines 103-104: if not transcribe_uri: return _response(500, ...)
NoTranscribeUri == Return(ErrorResponse(500, "Transcription failed"))

UploadKey(job_name, file_extension) == "uploads/" \o job_name \o file_extension

Upload ==
  /\ pc = "upload"
  /\ \/ /\ s3_objects' = s3_objects \cup {UploadKey(JobName, loc.file_extension)}
        /\ loc' = [loc EXCEPT !.job_name = JobName]
        /\ pc' = "submit"
        /\ UNCHANGED <<response, failures>>
     \/ /\ failures' = failures \cup {"upload"}
        /\ loc' = [loc EXCEPT !.job_name = JobName]
        /\ NoTranscribeUri
        /\ UNCHANGED s3_objects
  /\ UNCHANGED <<globals, concurrent, event, fs, job, poll, poll_outcome,
                 translate_calls, polly_calls>>

StartJob ==
  /\ pc = "submit"
  /\ \/ /\ job' = [NoJob EXCEPT !.status = "IN_PROGRESS"]
        /\ loc' = [loc EXCEPT !.transcribe_uri =
                     "s3://" \o TRANSCRIBE_BUCKET \o "/" \o UploadKey(loc.job_name, loc.file_extension)]
        /\ pc' = "poll_check"
        /\ UNCHANGED <<response, failures>>
     \/ /\ failures' = failures \cup {"submit"}
        /\ NoTranscribeUri
        /\ UNCHANGED <<job, loc>>
  /\ UNCHANGED <<globals, concurrent, event, fs, s3_objects, poll,
                 poll_outcome, translate_calls, polly_calls>>

(***************************************************************************)
(* The transcription engine: a job in progress completes, with some        *)
(* transcript, or fails, at any moment while the controller polls it.      *)
(***************************************************************************)
Polling == pc \in {"poll_check", "poll_sleep"}

JobCompletes ==
  /\ Polling
  /\ job.status = "IN_PROGRESS"
  /\ \E t \in Transcripts : job' = [status |-> "COMPLETED", transcript |-> t]
  /\ poll' = [poll EXCEPT !.doneAt = poll.elapsed]
  /\ UNCHANGED <<globals, concurrent, event, pc, loc, response, fs,
                 s3_objects, poll_outcome, translate_calls, polly_calls, failures>>

JobFails ==
  /\ Polling
  /\ job.status = "IN_PROGRESS"
  /\ job' = [job EXCEPT !.status = "FAILED"]
  /\ poll' = [poll EXCEPT !.doneAt = poll.elapsed]
  /\ UNCHANGED <<globals, concurrent, event, pc, loc, response, fs,
                 s3_objects, poll_outcome, translate_calls, polly_calls, failures>>

(***************************************************************************)
(* Lines 323-357: _get_transcribed_text.                                   *)
(***************************************************************************)
\* return value, from the return statement named by outcome
ControllerReturns(value, outcome) ==
  /\ loc' = [loc EXCEPT !.transcript_text = value]
  /\ poll_outcome' = outcome
  /\ pc' = "polled"

\* A slip: giving up as soon as one more sleep would overrun the budget.
TimedOut_before_last_sleep(elapsed) == elapsed + SLEEP_SECONDS > max_wait_time

\* A slip: the budget checked one sleep too late.
TimedOut_one_sleep_late(elapsed) == elapsed > max_wait_time + SLEEP_SECONDS

\* if time.time() - start_time > max_wait_time
TimedOut(elapsed) == elapsed > max_wait_time

\* A slip: only COMPLETED leaves the loop.
BreaksLoop_completed_only(job_status) == job_status = "COMPLETED"

\* if job_status in ["COMPLETED", "FAILED"]: break
BreaksLoop(job_status) == job_status \in {"COMPLETED", "FAILED"}

\* Lines 329-337: one iteration up to the break.  The status call takes up
\* to MaxLatency seconds and answers the job's status, or raises.
PollStatus ==
  /\ pc = "poll_check"
  /\ IF TimedOut(poll.elapsed)
       THEN /\ ControllerReturns(None, "TIMED_OUT")
            /\ UNCHANGED <<poll, failures>>
       ELSE \E latency \in 0..MaxLatency :
              \/ /\ poll' = [poll EXCEPT !.elapsed = @ + latency,
                                         !.checks = @ + 1,
                                         !.job_status = job.status]
                 /\ pc' = IF BreaksLoop(job.status) THEN "poll_result" ELSE "poll_sleep"
                 /\ UNCHANGED <<loc, poll_outcome, failures>>
              \/ /\ poll' = [poll EXCEPT !.elapsed = @ + latency, !.checks = @ + 1]
                 /\ failures' = failures \cup {"status"}
                 /\ ControllerReturns(None, "ERROR")
  /\ UNCHANGED <<globals, concurrent, event, response, fs, s3_objects, job,
                 translate_calls, polly_calls>>

\* Line 338: time.sleep(5)
PollSleep ==
  /\ pc = "poll_sleep"
  /\ poll' = [poll EXCEPT !.elapsed = @ + SLEEP_SECONDS, !.sleeps = @ + 1]
  /\ pc' = "poll_check"
  /\ UNCHANGED <<globals, concurrent, event, loc, response, fs, s3_objects,
                 job, poll_outcome, translate_calls, polly_calls, failures>>

\* response.json() of the engine's result document
ResultDocument(transcript) ==
  [results |-> [transcripts |-> << [transcript |-> transcript] >>]]

\* transcript_data["results"]["transcripts"][0]["transcript"]
FetchedTranscript(transcript_data) == transcript_data.results.transcripts[1].transcript

\* Lines 340-357: after the break.
PollResult ==
  /\ pc = "poll_result"
  /\ \/ /\ poll.job_status = "FAILED"
        /\ ControllerReturns(None, "FAILED")
        /\ UNCHANGED <<poll, failures>>
     \/ /\ poll.job_status # "FAILED"
        /\ poll' = [poll EXCEPT !.fetches = @ + 1]
        /\ ControllerReturns(FetchedTranscript(ResultDocument(job.transcript)), "TRANSCRIPT")
        /\ UNCHANGED failures
     \/ \* requests.get raises, or the document has no transcript
        /\ poll.job_status # "FAILED"
        /\ poll' = [poll EXCEPT !.fetches = @ + 1]
        /\ failures' = failures \cup {"fetch"}
        /\ ControllerReturns(None, "ERROR")
  /\ UNCHANGED <<globals, concurrent, event, response, fs, s3_objects, job,
                 translate_calls, polly_calls>>

\* Lines 106-109: if not transcript_text or not transcript_text.strip()
NoSpeech(transcript_text) ==
  transcript_text = None \/ transcript_text = "" \/ Strip(transcript_text) = ""

CheckTranscript ==
  /\ pc = "polled"
  /\ IF NoSpeech(loc.transcript_text)
       THEN Return(ErrorResponse(400, "No speech detected in audio"))
       ELSE pc' = "detect" /\ UNCHANGED response
  /\ poll' = NoPoll
  /\ UNCHANGED <<globals, concurrent, event, loc, fs, s3_objects, job,
                 poll_outcome, translate_calls, polly_calls, failures>>

(***************************************************************************)
(* Lines 111-141: language, forward translation, sentiment, reply.         *)
(***************************************************************************)
DetectLanguage ==
  /\ pc = "detect"
  /\ \/ /\ \E code \in LangCodes : loc' = [loc EXCEPT !.lang_code = code]
        /\ UNCHANGED failures
     \/ /\ loc' = [loc EXCEPT !.lang_code = "en"]
        /\ failures' = failures \cup {"detect"}
  /\ pc' = "forward"
  /\ UNCHANGED <<globals, concurrent, event, response, fs, s3_objects, job,
                 poll, poll_outcome, translate_calls, polly_calls>>

TranslateCall(kind, source, target) == [kind |-> kind, source |-> source, target |-> target]

\* A slip: English is not excepted.
ForwardTranslates_english_too(lang_code) == lang_code \in SUPPORTED_TRANSLATE_LANGS

\* if lang_code != "en" and lang_code in SUPPORTED_TRANSLATE_LANGS
ForwardTranslates(lang_code) ==
  lang_code # "en" /\ lang_code \in SUPPORTED_TRANSLATE_LANGS

TranslateForward ==
  /\ pc = "forward"
  /\ IF ForwardTranslates(loc.lang_code)
       THEN /\ translate_calls' =
                 Append(translate_calls, TranslateCall("forward", loc.lang_code, "en"))
            /\ \/ /\ loc' = [loc EXCEPT !.translated_text =
                               TranslateText(loc.transcript_text, loc.lang_code, "en")]
                  /\ UNCHANGED failures
               \/ /\ loc' = [loc EXCEPT !.translated_text = loc.transcript_text]
                  /\ failures' = failures \cup {"forward"}
       ELSE /\ loc' = [loc EXCEPT !.translated_text = loc.transcript_text]
            /\ UNCHANGED <<translate_calls, failures>>
  /\ pc' = "sentiment"
  /\ UNCHANGED <<globals, concurrent, event, response, fs, s3_objects, job,
                 poll, poll_outcome, polly_calls>>

\* A slip: no default assigned when the classifier raises.
SentimentDefault_unset == None

\* except: sentiment = "NEUTRAL"
SentimentDefault == "NEUTRAL"

DetectSentiment ==
  /\ pc = "sentiment"
  /\ \/ /\ \E s \in Sentiments : loc' = [loc EXCEPT !.sentiment = s]
        /\ UNCHANGED failures
     \/ /\ loc' = [loc EXCEPT !.sentiment = SentimentDefault]
        /\ failures' = failures \cup {"sentiment"}
  /\ pc' = "reply"
  /\ UNCHANGED <<globals, concurrent, event, response, fs, s3_objects, job,
                 poll, poll_outcome, translate_calls, polly_calls>>

\* _cohere_generate_reply
GenerateReply ==
  /\ pc = "reply"
  /\ \/ /\ loc' = [loc EXCEPT !.reply =
                     Strip(GeneratedText(loc.translated_text, loc.sentiment))]
        /\ UNCHANGED failures
     \/ /\ loc' = [loc EXCEPT !.reply = CANNED_REPLY]
        /\ failures' = failures \cup {"reply"}
  /\ pc' = "voice"
  /\ UNCHANGED <<globals, concurrent, event, response, fs, s3_objects, job,
                 poll, poll_outcome, translate_calls, polly_calls>>

(***************************************************************************)
(* Lines 144-180: the voice, and the reply's translation.                  *)
(***************************************************************************)
MatchVoice ==
  /\ pc = "voice"
  /\ LET match == find_best_voice_match(polly_langs, loc.lang_code)
     IN loc' = [loc EXCEPT !.voice_id = match[1],
                           !.spoken_lang_code = match[2],
                           !.final_reply = loc.reply]
  /\ pc' = "back"
  /\ UNCHANGED <<globals, concurrent, event, response, fs, s3_objects, job,
                 poll, poll_outcome, translate_calls, polly_calls, failures>>

\* A slip: a translate_text call that raised is made once more.
ReplyTranslation_retried(kind, source, target, voice_id, spoken_lang_code) ==
  \/ /\ translate_calls' = Append(translate_calls, TranslateCall(kind, source, target))
     /\ loc' = [loc EXCEPT !.voice_id = voice_id,
                           !.spoken_lang_code = spoken_lang_code,
                           !.final_reply = TranslateText(loc.reply, source, target)]
     /\ UNCHANGED failures
  \/ /\ translate_calls' = Append(Append(translate_calls, TranslateCall(kind, source, target)),
                                  TranslateCall(kind, source, target))
     /\ loc' = [loc EXCEPT !.voice_id = voice_id,
                           !.spoken_lang_code = spoken_lang_code,
                           !.final_reply = loc.reply]
     /\ failures' = failures \cup {kind}

\* One translate_text call on the reply: final_reply is the translation, or,
\* when the call raises, the reply.
ReplyTranslation(kind, source, target, voice_id, spoken_lang_code) ==
  /\ translate_calls' = Append(translate_calls, TranslateCall(kind, source, target))
  /\ \/ /\ loc' = [loc EXCEPT !.voice_id = voice_id,
                              !.spoken_lang_code = spoken_lang_code,
                              !.final_reply = TranslateText(loc.reply, source, target)]
        /\ UNCHANGED failures
     \/ /\ loc' = [loc EXCEPT !.voice_id = voice_id,
                              !.spoken_lang_code = spoken_lang_code,
                              !.final_reply = loc.reply]
        /\ failures' = failures \cup {kind}

\* A slip: the fallback keeps the detected code as the spoken language.
FallbackVoice_detected_code(lang_code) == <<"Joanna", lang_code>>

\* Lines 167-168: voice_id = "Joanna"; spoken_lang_code = "en"
FallbackVoice(lang_code) == <<"Joanna", "en">>

\* A slip: the reply is never translated back.
BackTranslates_never(spoken_lang_code) == FALSE

\* if spoken_lang_code != "en"
BackTranslates(spoken_lang_code) == spoken_lang_code # "en"

\* if lang_code != "en"
FallbackTranslates(lang_code) == lang_code # "en"

TranslateReply ==
  /\ pc = "back"
  /\ IF loc.voice_id # None
       THEN IF BackTranslates(loc.spoken_lang_code)
              THEN ReplyTranslation("back", "en", loc.spoken_lang_code,
                                    loc.voice_id, loc.spoken_lang_code)
              ELSE UNCHANGED <<loc, translate_calls, failures>>
       ELSE LET fallback == FallbackVoice(loc.lang_code)
            IN IF FallbackTranslates(loc.lang_code)
                 THEN ReplyTranslation("fallback", loc.lang_code, "en",
                                       fallback[1], fallback[2])
                 ELSE /\ loc' = [loc EXCEPT !.voice_id = fallback[1],
                                            !.spoken_lang_code = fallback[2]]
                      /\ UNCHANGED <<translate_calls, failures>>
  /\ pc' = "synthesize"
  /\ UNCHANGED <<globals, concurrent, event, response, fs, s3_objects, job,
                 poll, poll_outcome, polly_calls>>

(***************************************************************************)
(* Lines 182-210: synthesis and the audio response.                        *)
(***************************************************************************)
\* Engine="neural" if voice_id in NEURAL_SUPPORTED_VOICES else "standard"
Engine(voice_id) == IF voice_id \in NEURAL_SUPPORTED_VOICES THEN "neural" ELSE "standard"

PollyCall(ok) ==
  [text |-> loc.final_reply, voice |-> loc.voice_id, engine |-> Engine(loc.voice_id),
   ok |-> ok]

\* The response after polly_response["AudioStream"].read() answered audio_stream
SynthesisResponse(audio_stream, spoken_lang_code) ==
  AudioResponse(b64encode(audio_stream), spoken_lang_code)

\* A slip: the exception swallowed, an empty audio body answered.
SynthesisFailure_empty_audio == AudioResponse("", "en")

\* The response after synthesize_speech raised
SynthesisFailure == ErrorResponse(500, "Audio response generation failed")

Synthesize ==
  /\ pc = "synthesize"
  /\ \/ \E audio_stream \in AudioStreams :
          /\ polly_calls' = Append(polly_calls, PollyCall(TRUE))
          /\ loc' = [loc EXCEPT !.audio_stream = audio_stream,
                                !.audio_base64 = b64encode(audio_stream)]
          /\ Return(SynthesisResponse(audio_stream, loc.spoken_lang_code))
          /\ UNCHANGED failures
     \/ /\ polly_calls' = Append(polly_calls, PollyCall(FALSE))
        /\ failures' = failures \cup {"synthesize"}
        /\ Return(SynthesisFailure)
        /\ UNCHANGED loc
  /\ UNCHANGED <<globals, concurrent, event, fs, s3_objects, job, poll,
                 poll_outcome, translate_calls>>

(***************************************************************************)
(* Lines 216-222: the finally block.  os.unlink may raise; the exception   *)
(* is logged and the file stays.                                           *)
(***************************************************************************)
Finally ==
  /\ pc = "finally"
  /\ IF loc.tmp_audio_path # None /\ loc.tmp_audio_path \in fs
       THEN \/ /\ fs' = fs \ {loc.tmp_audio_path}
               /\ UNCHANGED failures
            \/ /\ failures' = failures \cup {"unlink"}
               /\ UNCHANGED fs
       ELSE UNCHANGED <<fs, failures>>
  /\ pc' = "done"
  /\ UNCHANGED <<globals, concurrent, event, loc, response, s3_objects, job,
                 poll, poll_outcome, translate_calls, polly_calls>>

Next ==
  \/ CheckRequest
  \/ StageAudio
  \/ Upload
  \/ StartJob
  \/ JobCompletes
  \/ JobFails
  \/ PollStatus
  \/ PollSleep
  \/ PollResult
  \/ CheckTranscript
  \/ DetectLanguage
  \/ TranslateForward
  \/ DetectSentiment
  \/ GenerateReply
  \/ MatchVoice
  \/ TranslateReply
  \/ Synthesize
  \/ Finally

Spec == Init /\ [][Next]_vars

(***************************************************************************)
(* Properties.                                                             *)
(***************************************************************************)
Done == pc = "done"

\* The handler has its response: it is in, or past, the finally block.
Responded == pc \in {"finally", "done"}

\* The controller returned a transcript with speech in it.
SpeechFound == poll_outcome = "TRANSCRIPT" /\ ~NoSpeech(loc.transcript_text)

B64Index(c) == CHOOSE n \in 0..63 : B64Char(n) = c

\* The bytes a base64 text stands for.
RECURSIVE b64decode(_)
b64decode(s) ==
  IF s = "" THEN <<>>
  ELSE LET n1 == B64Index(Char(s, 1))
           n2 == B64Index(Char(s, 2))
       IN IF Char(s, 3) = "=" THEN << n1 * 4 + n2 \div 16 >>
          ELSE LET n3 == B64Index(Char(s, 3))
               IN IF Char(s, 4) = "="
                    THEN << n1 * 4 + n2 \div 16, (n2 % 16) * 16 + n3 \div 4 >>
                    ELSE << n1 * 4 + n2 \div 16, (n2 % 16) * 16 + n3 \div 4,
                            (n3 % 4) * 64 + B64Index(Char(s, 4)) >>
                           \o b64decode(SubSeq(s, 5, Len(s)))

NoSpeechResponse == ErrorResponse(400, "No speech detected in audio")

\* C1: a job that ended FAILED, or a wait budget exceeded with the job still in
\* flight, gives a status-500 response; the 400 "no speech detected" response
\* is given only for a COMPLETED job whose transcript is empty or white space.
\* Stated for the runs in which no collaborator call raises.
C1_FailedOrTimedOutIs500 ==
  (Done /\ failures = {}) =>
    /\ poll_outcome \in {"FAILED", "TIMED_OUT"} => response.statusCode = 500
    /\ response = NoSpeechResponse =>
         /\ job.status = "COMPLETED"
         /\ poll_outcome = "TRANSCRIPT"
         /\ IsBlank(job.transcript)

\* C2: detected language "en" and every collaborator call succeeding give
\* status 200, Content-Type audio/mpeg and x-language "en".
C2_EnglishAnswersEn ==
  (Done /\ loc.lang_code = "en" /\ failures = {}) =>
    /\ response.statusCode = 200
    /\ response.contentType = "audio/mpeg"
    /\ response.xLanguage = "en"

\* C3: when the handler returns, no temporary file it staged exists.
C3_NoTempFileAtReturn == Done => fs = {}

\* The request's configuration or body is one the handler refuses.
MissingConfig == COHERE_API_KEY = None \/ TRANSCRIBE_BUCKET = None

DeclaredContentTypes == {event.headers[i][2] : i \in 1..Len(event.headers)}

MultipartRequest ==
  DeclaredContentTypes \cap {CT_MULTIPART_XYZ, CT_MULTIPART_NO_BOUNDARY} # {}

\* No body, a body base64 cannot decode, a multipart request from which no
\* part named "audio" can be extracted, or fewer than 100 bytes of audio.
BadBody ==
  \/ event.body.wire \in {"none", "empty", "badb64"}
  \/ MultipartRequest /\ ~( /\ event.body.wire = "b64"
                            /\ event.body.form = "multipart"
                            /\ DeclaredContentTypes = {CT_MULTIPART_XYZ}
                            /\ event.body.field = "audio" )
  \/ event.body.audio.len < MIN_AUDIO_BYTES

NothingStaged ==
  /\ fs = {}
  /\ s3_objects = {}
  /\ job = NoJob
  /\ loc.tmp_audio_path = None
  /\ pc \in {"start", "finally", "done"}

C5_DegradeNotFail ==
  SpeechFound =>
    /\ response.statusCode \in {400, 500} => "synthesize" \in failures
    /\ (Done /\ "synthesize" \notin failures) => response.statusCode = 200
    /\ "detect" \in failures => loc.lang_code = "en"
    /\ "forward" \in failures => loc.translated_text = loc.transcript_text
    /\ "sentiment" \in failures => loc.sentiment = "NEUTRAL"
    /\ "reply" \in failures => loc.reply = CANNED_REPLY
    /\ ("back" \in failures \/ "fallback" \in failures) => loc.final_reply = loc.reply

C5_Witness ==
  /\ Done
  /\ SpeechFound
  /\ {"detect", "sentiment", "reply", "back"} \subseteq failures
  /\ response.statusCode = 200

\* C6: a failed synthesis call gives a status-500 response; a status-200
\* response comes only after a successful synthesis call and carries, base64
\* encoded, the audio bytes that call returned.
C6_AudioOnlyFromSynthesis ==
  /\ (Responded /\ "synthesize" \in failures) => response.statusCode = 500
  /\ response.statusCode = 200 =>
       /\ Len(polly_calls) = 1
       /\ polly_calls[1].ok
       /\ response.contentType = "audio/mpeg"
       /\ b64decode(response.body) = loc.audio_stream

C6_Witness ==
  /\ Done
  /\ response.statusCode = 200
  /\ loc.audio_stream = <<73, 68, 51, 4>>
  /\ response.body = "SUQzBA=="

(***************************************************************************)
(* The controller alone: _get_transcribed_text from its first line, the    *)
(* job just submitted.  The handler is one synchronous thread, so each of  *)
(* its steps is taken once it can be; the engine owes nothing.             *)
(***************************************************************************)
PollEvent ==
  [body |-> Body("raw", "plain", "", "", Audio(WavHead, MIN_AUDIO_BYTES)),
   headers |-> <<>>,
   isBase64Encoded |-> FALSE]

PollInit ==
  /\ COHERE_API_KEY = "cohere-key"
  /\ TRANSCRIBE_BUCKET = "bucket"
  /\ polly_langs = SUPPORTED_POLLY_LANGS
  /\ event = PollEvent
  /\ pc = "poll_check"
  /\ loc = [NoLocals EXCEPT !.audio_bytes = Audio(WavHead, MIN_AUDIO_BYTES),
                            !.file_extension = ".wav",
                            !.media_format = "wav",
                            !.tmp_audio_path = TmpPath(".wav"),
                            !.job_name = JobName,
                            !.transcribe_uri = "s3://bucket/" \o UploadKey(JobName, ".wav")]
  /\ response = NoResponse
  /\ fs = {TmpPath(".wav")}
  /\ s3_objects = {UploadKey(JobName, ".wav")}
  /\ job = [NoJob EXCEPT !.status = "IN_PROGRESS"]
  /\ poll = NoPoll
  /\ poll_outcome = None
  /\ translate_calls = <<>>
  /\ polly_calls = <<>>
  /\ failures = {}
  /\ NoInvocations

PollNext ==
  \/ JobCompletes
  \/ JobFails
  \/ PollStatus
  \/ PollSleep
  \/ PollResult

FairPollSpec ==
  /\ PollInit
  /\ [][PollNext]_vars
  /\ WF_vars(PollStatus)
  /\ WF_vars(PollSleep)
  /\ WF_vars(PollResult)

\* The controller has returned to the handler.
Polled == pc = "polled"

\* No status call and no result fetch raised.
CallsAnswered == failures \cap {"status", "fetch"} = {}

\* C7 (as claimed): a job COMPLETED before the wait budget of 300 seconds
\* elapsed makes the controller return its transcript, whatever the timing of
\* the completion and the latency of the status calls.  Stated for the runs in
\* which no status call and no fetch raises.
C7_CompletedInBudgetReturnsTranscript ==
  (Polled /\ CallsAnswered /\ job.status = "COMPLETED"
     /\ poll.doneAt < max_wait_time)
    => loc.transcript_text = job.transcript

\* C7 (amended): a job that a status check reads as COMPLETED makes the
\* controller return its transcript when the fetch of the result document
\* succeeds; every job that completes at least one sleep and one status-call
\* latency before the budget elapses is read so, when no status call raises.
C7_ObservedCompletedReturnsTranscript ==
  /\ (Polled /\ poll.job_status = "COMPLETED" /\ "fetch" \notin failures) =>
       /\ poll_outcome = "TRANSCRIPT"
       /\ loc.transcript_text = job.transcript
  /\ (Polled /\ CallsAnswered /\ job.status = "COMPLETED"
        /\ poll.doneAt + SLEEP_SECONDS + MaxLatency <= max_wait_time) =>
       /\ poll.job_status = "COMPLETED"
       /\ loc.transcript_text = job.transcript

\* The job completed between two checks, off the 5-second grid.
C7_Witness ==
  /\ Polled
  /\ poll_outcome = "TRANSCRIPT"
  /\ loc.transcript_text = "hola"
  /\ poll.doneAt % SLEEP_SECONDS # 0
  /\ poll.doneAt + SLEEP_SECONDS + MaxLatency = max_wait_time

MaxStatusChecks == max_wait_time \div SLEEP_SECONDS + 1

PollBounded ==
  /\ poll.checks <= MaxStatusChecks
  /\ poll.checks >= 1 => SLEEP_SECONDS * (poll.checks - 1) <= poll.elapsed
  /\ (Polled /\ poll_outcome = "TIMED_OUT") =>
       /\ loc.transcript_text = None
       /\ poll.elapsed > max_wait_time
  /\ (Polled /\ job.status = "IN_PROGRESS") =>
       /\ loc.transcript_text = None
       /\ "status" \notin failures => poll_outcome = "TIMED_OUT"

\* C8: a job still in flight past the wait budget makes the controller return
\* the timed-out outcome, with no transcript; the polling loop always ends,
\* after at most one status check per 5 seconds of the 300-second budget.
C8_PollingTimesOutAndEnds == []PollBounded /\ <>Polled

C8_Witness ==
  /\ Polled
  /\ poll_outcome = "TIMED_OUT"
  /\ job.status = "IN_PROGRESS"
  /\ poll.checks = MaxStatusChecks

\* C9: the first status check that reads FAILED ends polling: the controller
\* returns failure with no further sleep, status check or fetch, however much
\* of the budget is left.
C9_FailedEndsPolling ==
  [][ /\ (pc = "poll_check" /\ poll'.job_status = "FAILED") => pc' = "poll_result"
      /\ (pc = "poll_result" /\ poll.job_status = "FAILED") =>
           /\ pc' = "polled"
           /\ poll' = poll
           /\ poll_outcome' = "FAILED"
           /\ loc'.transcript_text = None
      /\ (pc' = "polled" /\ poll_outcome' = "FAILED") =>
           /\ poll'.fetches = 0
           /\ poll'.sleeps = poll'.checks - 1
           /\ poll'.elapsed <= poll'.doneAt + SLEEP_SECONDS + MaxLatency ]_vars

\* FAILED read at the third check, long before the budget is spent.
C9_Witness ==
  /\ Polled
  /\ poll_outcome = "FAILED"
  /\ poll.checks = 3
  /\ poll.sleeps = 2
  /\ poll.fetches = 0
  /\ poll.elapsed < max_wait_time - 200

(***************************************************************************)
(* find_best_voice_match alone, over small tables and codes.               *)
(***************************************************************************)
\* Longest table.
MaxTable == 3

VoiceKeys == {"hi", "hi-IN", "hi-Latn", "xhiy", "en-US"}

VoiceCodes == {"hi", "hi-IN", "en", "xx", "h", ""}

VoiceFor(key) == "Voice:" \o key

VoiceTables ==
  UNION { { [i \in 1..n |-> <<k[i], VoiceFor(k[i])>>] :
              k \in {f \in [1..n -> VoiceKeys] :
                       \A i, j \in 1..n : i # j => f[i] # f[j]} } :
          n \in 0..MaxTable }

VoiceInit ==
  /\ COHERE_API_KEY = "cohere-key"
  /\ TRANSCRIBE_BUCKET = "bucket"
  /\ polly_langs \in VoiceTables
  /\ event = PollEvent
  /\ pc = "voice"
  /\ \E code \in VoiceCodes :
       loc = [NoLocals EXCEPT !.lang_code = code, !.reply = CANNED_REPLY]
  /\ response = NoResponse
  /\ fs = {}
  /\ s3_objects = {}
  /\ job = NoJob
  /\ poll = NoPoll
  /\ poll_outcome = None
  /\ translate_calls = <<>>
  /\ polly_calls = <<>>
  /\ failures = {}
  /\ NoInvocations

VoiceNext == MatchVoice

VoiceSpec == VoiceInit /\ [][VoiceNext]_vars

ExactKeys(table, code) == {k \in DictKeys(table) : k = code}

PrefixKeys(table, code) == {k \in DictKeys(table) : StartsWith(k, code \o "-")}

ContainingKeys(table, code) == {k \in DictKeys(table) : Contains(k, code)}

\* The keys of the first tier that has any.
WinningKeys(table, code) ==
  IF ExactKeys(table, code) # {} THEN ExactKeys(table, code)
  ELSE IF PrefixKeys(table, code) # {} THEN PrefixKeys(table, code)
  ELSE ContainingKeys(table, code)

\* C10: find_best_voice_match answers the entry of the first of the tiers
\* EXACT, PREFIX, CONTAINMENT that has a matching key, and no match when none
\* has; a containment match only when exact and prefix matching both fail.
C10_TiersInOrder ==
  pc = "back" =>
    IF WinningKeys(polly_langs, loc.lang_code) = {}
      THEN loc.voice_id = None /\ loc.spoken_lang_code = None
      ELSE /\ loc.spoken_lang_code \in WinningKeys(polly_langs, loc.lang_code)
           /\ loc.voice_id = DictGet(polly_langs, loc.spoken_lang_code)

\* "hi" against a table that holds a containing key before a prefix key.
C10_Witness ==
  /\ pc = "back"
  /\ loc.lang_code = "hi"
  /\ Len(polly_langs) = 2
  /\ polly_langs[1][1] = "xhiy"
  /\ polly_langs[2][1] = "hi-IN"
  /\ loc.spoken_lang_code = "hi-IN"
  /\ loc.voice_id = "Voice:hi-IN"

(***************************************************************************)
(* The voice, the spoken language and the reply's translation.             *)
(***************************************************************************)
\* The voice and the spoken language are settled: lines 150-180 have run.
VoiceResolved == pc \in {"synthesize", "finally", "done"} /\ loc.spoken_lang_code # None

\* C11: at the synthesis call and in every 200 response, either the matcher
\* found no match and the voice is Joanna with spoken language "en", or the
\* spoken language is a key of the voice table and the voice is that key's
\* value; x-language is this spoken language.
C11_VoiceMatchesSpokenLanguage ==
  /\ VoiceResolved =>
       IF find_best_voice_match(polly_langs, loc.lang_code) = NoMatch
         THEN loc.voice_id = "Joanna" /\ loc.spoken_lang_code = "en"
         ELSE /\ loc.spoken_lang_code \in DictKeys(polly_langs)
              /\ loc.voice_id = DictGet(polly_langs, loc.spoken_lang_code)
  /\ \A i \in 1..Len(polly_calls) : polly_calls[i].voice = loc.voice_id
  /\ response.statusCode = 200 =>
       /\ VoiceResolved
       /\ Len(polly_calls) = 1
       /\ response.xLanguage = loc.spoken_lang_code

\* No key holds "zh": Joanna speaks, and x-language is not the detected code.
C11_Witness ==
  /\ Done
  /\ response.statusCode = 200
  /\ loc.lang_code = "zh"
  /\ polly_calls[1].voice = "Joanna"
  /\ response.xLanguage = "en"

\* C12: with a voice matched and a spoken language other than "en", the reply
\* is translated from English into the spoken language before synthesis; the
\* text synthesized is the translation when that call succeeds and the reply
\* itself when it fails, and synthesis is invoked in both cases.
C12_BackTranslationBeforeSynthesis ==
  (VoiceResolved /\ loc.spoken_lang_code # "en") =>
    /\ translate_calls # <<>>
    /\ translate_calls[Len(translate_calls)] =
         TranslateCall("back", "en", loc.spoken_lang_code)
    /\ loc.final_reply =
         IF "back" \in failures THEN loc.reply
         ELSE TranslateText(loc.reply, "en", loc.spoken_lang_code)
    /\ pc = "synthesize" => polly_calls = <<>>
    /\ Responded =>
         /\ Len(polly_calls) = 1
         /\ polly_calls[1].text = loc.final_reply

\* The back-translation to Hindi raised; the English reply was synthesized.
C12_Witness ==
  /\ Done
  /\ loc.lang_code = "hi"
  /\ loc.spoken_lang_code = "hi-IN"
  /\ "back" \in failures
  /\ response.statusCode = 200
  /\ polly_calls[1].text = loc.reply
  /\ translate_calls[Len(translate_calls)].target = "hi-IN"

\* The language of a translate_text call that is not English.
ForeignLanguage(call) == IF call.source = "en" THEN call.target ELSE call.source

\* C13: every translate_text call of a request (forward, back, fallback) has
\* its non-English language in SUPPORTED_TRANSLATE_LANGS; for a detected
\* language outside that set no call is made, and sentiment and reply
\* generation run on the untranslated text.
C13_TranslatorOnlySupportedLanguages ==
  /\ \A i \in 1..Len(translate_calls) :
       ForeignLanguage(translate_calls[i]) \in SUPPORTED_TRANSLATE_LANGS
  /\ (loc.lang_code # None /\ loc.lang_code \notin SUPPORTED_TRANSLATE_LANGS) =>
       /\ translate_calls = <<>>
       /\ loc.translated_text \in {None, loc.transcript_text}

(***************************************************************************)
(* Two invocations at once, lines 96-104, 216-222 and 300-317 of each: the *)
(* temporary directory, the bucket and the engine's job names are shared.  *)
(* uuid.uuid4() answers a value no invocation holds, and NamedTemporaryFile *)
(* creates its file exclusively, under a name no existing file has.  Lines *)
(* 106-214 touch neither files nor keys and are one step.                  *)
(***************************************************************************)
Invocations == {1, 2}

UUIDs == {"uuid000a", "uuid000b"}

TmpNames == {"/tmp/tmpaaaa", "/tmp/tmpbbbb"}

PairAudios == {Audio(WavHead, MIN_AUDIO_BYTES), Audio(NoiseHead, MIN_AUDIO_BYTES)}

\* An invocation about to stage its audio.  file: the temporary file it
\* created and has not deleted.
Staging(audio_bytes) ==
  [pc |-> "stage", audio_bytes |-> audio_bytes,
   file_extension |-> detect_audio_format(audio_bytes, "")[1],
   tmp_audio_path |-> None, uuid4 |-> None, job_name |-> None, key |-> None,
   statusCode |-> 0, file |-> None]

PairInit ==
  /\ COHERE_API_KEY = "cohere-key"
  /\ TRANSCRIBE_BUCKET = "bucket"
  /\ polly_langs = SUPPORTED_POLLY_LANGS
  /\ event = PollEvent
  /\ pc = "done"
  /\ loc = NoLocals
  /\ response = NoResponse
  /\ fs = {}
  /\ s3_objects = {}
  /\ job = NoJob
  /\ poll = NoPoll
  /\ poll_outcome = None
  /\ translate_calls = <<>>
  /\ polly_calls = <<>>
  /\ failures = {}
  /\ invocations \in [Invocations -> {Staging(a) : a \in PairAudios}]
  /\ transcribe_jobs = {}
  /\ tmp_bytes = <<>>

alone == <<globals, event, pc, loc, response, job, poll, poll_outcome,
           translate_calls, polly_calls, failures>>

\* Lines 96-98 of invocation i
StageAudioOf(i) ==
  /\ invocations[i].pc = "stage"
  /\ \/ \E name \in TmpNames :
          LET path == TmpFile(name, invocations[i].file_extension)
          IN /\ path \notin fs
             /\ fs' = fs \cup {path}
             /\ \/ /\ tmp_bytes' = (path :> invocations[i].audio_bytes) @@ tmp_bytes
                   /\ invocations' = [invocations EXCEPT ![i].tmp_audio_path = path,
                                                         ![i].file = path,
                                                         ![i].pc = "upload"]
                \/ \* the write raises
                   /\ tmp_bytes' = (path :> NoAudio) @@ tmp_bytes
                   /\ invocations' = [invocations EXCEPT ![i].file = path,
                                                         ![i].statusCode = 500,
                                                         ![i].pc = "finally"]
     \/ \* the file cannot be created
        /\ invocations' = [invocations EXCEPT ![i].statusCode = 500, ![i].pc = "finally"]
        /\ UNCHANGED <<fs, tmp_bytes>>
  /\ UNCHANGED <<alone, s3_objects, transcribe_jobs>>

\* The values uuid4 has answered.
UuidsDrawn == {invocations[j].uuid4 : j \in Invocations} \ {None}

\* Lines 101, 303-305 of invocation i
UploadOf(i) ==
  /\ invocations[i].pc = "upload"
  /\ \E uuid4 \in UUIDs :
       /\ uuid4 \notin UuidsDrawn
       /\ LET job_name == job_name_of(uuid4)
              key == UploadKey(job_name, invocations[i].file_extension)
          IN \/ /\ s3_objects' = s3_objects \cup {key}
                /\ invocations' = [invocations EXCEPT ![i].uuid4 = uuid4,
                                                      ![i].job_name = job_name,
                                                      ![i].key = key,
                                                      ![i].pc = "submit"]
             \/ /\ invocations' = [invocations EXCEPT ![i].uuid4 = uuid4,
                                                      ![i].job_name = job_name,
                                                      ![i].statusCode = 500,
                                                      ![i].pc = "finally"]
                /\ UNCHANGED s3_objects
  /\ UNCHANGED <<alone, fs, transcribe_jobs, tmp_bytes>>

\* Lines 307-317 of invocation i: a job name the engine holds is refused.
StartJobOf(i) ==
  /\ invocations[i].pc = "submit"
  /\ \/ /\ invocations[i].job_name \notin transcribe_jobs
        /\ transcribe_jobs' = transcribe_jobs \cup {invocations[i].job_name}
        /\ invocations' = [invocations EXCEPT ![i].pc = "pipeline"]
     \/ /\ invocations' = [invocations EXCEPT ![i].statusCode = 500, ![i].pc = "finally"]
        /\ UNCHANGED transcribe_jobs
  /\ UNCHANGED <<alone, fs, s3_objects, tmp_bytes>>

\* Lines 106-214 of invocation i, to its return statement
PipelineOf(i) ==
  /\ invocations[i].pc = "pipeline"
  /\ \E status \in {200, 400, 500} :
       invocations' = [invocations EXCEPT ![i].statusCode = status, ![i].pc = "finally"]
  /\ UNCHANGED <<alone, fs, s3_objects, transcribe_jobs, tmp_bytes>>

\* Lines 216-222 of invocation i
FinallyOf(i) ==
  /\ invocations[i].pc = "finally"
  /\ LET path == invocations[i].tmp_audio_path
     IN IF path # None /\ path \in fs
          THEN \/ /\ fs' = fs \ {path}
                  /\ tmp_bytes' = [p \in DOMAIN tmp_bytes \ {path} |-> tmp_bytes[p]]
                  /\ invocations' =
                       [j \in Invocations |->
                          IF j = i THEN [invocations[j] EXCEPT !.pc = "done", !.file = None]
                          ELSE invocations[j]]
               \/ /\ invocations' = [invocations EXCEPT ![i].pc = "done"]
                  /\ UNCHANGED <<fs, tmp_bytes>>
          ELSE /\ invocations' = [invocations EXCEPT ![i].pc = "done"]
               /\ UNCHANGED <<fs, tmp_bytes>>
  /\ UNCHANGED <<alone, s3_objects, transcribe_jobs>>

PairNext ==
  \E i \in Invocations :
    \/ StageAudioOf(i)
    \/ UploadOf(i)
    \/ StartJobOf(i)
    \/ PipelineOf(i)
    \/ FinallyOf(i)

PairSpec == PairInit /\ [][PairNext]_vars

\* Invocation i's temporary file is there, holding what i wrote.
OwnFileIntact(i) ==
  invocations[i].file # None =>
    /\ invocations[i].file \in fs
    /\ invocations[i].file \in DOMAIN tmp_bytes
    /\ tmp_bytes[invocations[i].file] =
         IF invocations[i].tmp_audio_path # None THEN invocations[i].audio_bytes
         ELSE NoAudio

Distinct(a, b) == (a # None /\ b # None) => a # b

\* C14: two concurrent invocations, identical audio included, have different
\* job names, different upload keys and different temporary files, and the
\* cleanup of one never deletes or alters the staged file of the other.
C14_InvocationsIndependent ==
  \A i, j \in Invocations :
    /\ OwnFileIntact(i)
    /\ i # j =>
         /\ Distinct(invocations[i].job_name, invocations[j].job_name)
         /\ Distinct(invocations[i].key, invocations[j].key)
         /\ Distinct(invocations[i].file, invocations[j].file)

\* The same audio twice: one invocation has cleaned up, the other's file,
\* key and job are still its own.
C14_Witness ==
  /\ invocations[1].audio_bytes = invocations[2].audio_bytes
  /\ invocations[1].pc = "done"
  /\ invocations[1].key # None
  /\ invocations[1].file = None
  /\ invocations[2].pc = "pipeline"
  /\ invocations[2].file \in fs
  /\ invocations[2].key \in s3_objects
  /\ invocations[2].job_name \in transcribe_jobs
  /\ invocations[1].job_name \in transcribe_jobs

(***************************************************************************)
(* _detect_audio_format alone: requests of 100 bytes and more, raw bodies, *)
(* over first bytes and declared content types of every kind.              *)
(***************************************************************************)
FormatHeads ==
  { WavHead, OggHead, NoiseHead,
    ID3 \o Zeros(9),
    MPEG_SYNC \o Zeros(10),
    <<255, 250>> \o Zeros(10),
    RIFF \o Zeros(8),
    RIFF \o Zeros(4) \o <<87, 69, 66, 80>>,
    Zeros(8) \o WAVE,
    <<111, 103, 103, 115>> \o Zeros(8) }

FormatContentTypes ==
  { "audio/wav", "audio/WAV", "audio/x-wav; rate=8000", "audio/ogg", "Audio/OGG",
    "audio/mp3", "audio/mpeg", "audio/webm", "audio/WebM;codecs=opus",
    "audio/webm; was=wav", "audio/ogg; was=mp3", "audio/wav+ogg",
    "application/octet-stream" }

FormatEvents ==
  { [body |-> Body("raw", "plain", "", "", Audio(h, n)),
     headers |-> hs,
     isBase64Encoded |-> FALSE] :
      h \in FormatHeads,
      n \in {MIN_AUDIO_BYTES, MIN_AUDIO_BYTES + 1},
      hs \in {<<>>} \cup { << <<"Content-Type", ct>> >> : ct \in FormatContentTypes } }

FormatInit ==
  /\ COHERE_API_KEY = "cohere-key"
  /\ TRANSCRIBE_BUCKET = "bucket"
  /\ polly_langs = SUPPORTED_POLLY_LANGS
  /\ event \in FormatEvents
  /\ pc = "start"
  /\ loc = NoLocals
  /\ response = NoResponse
  /\ fs = {}
  /\ s3_objects = {}
  /\ job = NoJob
  /\ poll = NoPoll
  /\ poll_outcome = None
  /\ translate_calls = <<>>
  /\ polly_calls = <<>>
  /\ failures = {}
  /\ NoInvocations

FormatNext == CheckRequest

FormatSpec == FormatInit /\ [][FormatNext]_vars

\* The format whose magic signature the bytes start with, or None.
SignatureOf(head) ==
  IF SubSeq(head, 1, 4) = <<82, 73, 70, 70>> /\ SubSeq(head, 9, 12) = <<87, 65, 86, 69>>
    THEN "wav"
  ELSE IF SubSeq(head, 1, 4) = <<79, 103, 103, 83>> THEN "ogg"
  ELSE IF SubSeq(head, 1, 3) = <<73, 68, 51>> \/ SubSeq(head, 1, 2) = <<255, 251>>
    THEN "mp3"
  ELSE None

FormatNames == <<"webm", "wav", "ogg", "mp3">>

\* The first of webm, wav, ogg, mp3 the content type names, in any case, or None.
NamedIn(content_type) ==
  LET named == {k \in 1..Len(FormatNames) : Contains(Lower(content_type), FormatNames[k])}
  IN IF named = {} THEN None
     ELSE FormatNames[CHOOSE k \in named : \A m \in named : k <= m]

\* C15: for a payload of 100 bytes or more and any content type, the format is
\* wav, ogg or mp3 when the bytes start with that format's magic signature,
\* whatever the content type; else the format the content type names, looked
\* for in the order webm, wav, ogg, mp3 without regard to case; else webm.
C15_FormatBySignatureThenType ==
  pc = "stage" =>
    LET signature == SignatureOf(event.body.audio.head)
        named == NamedIn(ContentTypeOf(event.headers))
        format == IF signature # None THEN signature
                  ELSE IF named # None THEN named
                  ELSE "webm"
    IN /\ event.body.audio.len >= MIN_AUDIO_BYTES
       /\ loc.media_format = format
       /\ loc.file_extension = "." \o format

\* Ogg bytes declared as WAV: the bytes win.
C15_Witness ==
  /\ pc = "stage"
  /\ event.body.audio.head = OggHead
  /\ ContentTypeOf(event.headers) = "audio/WAV"
  /\ loc.media_format = "ogg"
  /\ loc.file_extension = ".ogg"

(***************************************************************************)
(* The order of ties in find_best_voice_match, under VoiceSpec.            *)
(***************************************************************************)
\* The characters of language codes, in code point order: sorted() compares
\* str values by code point.
CODE_POINTS == "-0123456789" \o UPPER \o LOWER

Ord(c) == CHOOSE n \in 1..Len(CODE_POINTS) : Char(CODE_POINTS, n) = c

\* a < b, for str values
RECURSIVE SortsBefore(_, _)
SortsBefore(a, b) ==
  IF b = "" THEN FALSE
  ELSE IF a = "" THEN TRUE
  ELSE IF Char(a, 1) # Char(b, 1) THEN Ord(Char(a, 1)) < Ord(Char(b, 1))
  ELSE SortsBefore(SubSeq(a, 2, Len(a)), SubSeq(b, 2, Len(b)))

FirstSorted(keys) == CHOOSE k \in keys : \A m \in keys \ {k} : SortsBefore(k, m)

\* The place of the first winning key in the table's own order.
FirstPlace(table, code) ==
  CHOOSE i \in 1..Len(table) :
    /\ table[i][1] \in WinningKeys(table, code)
    /\ \A j \in 1..(i - 1) : table[j][1] \notin WinningKeys(table, code)

\* C16 (as claimed): find_best_voice_match is deterministic, and of several
\* keys matching at the winning tier it answers the one that comes first in
\* sorted key order.
C16_TieBrokenBySortedKey ==
  (pc = "back" /\ WinningKeys(polly_langs, loc.lang_code) # {}) =>
    loc.spoken_lang_code = FirstSorted(WinningKeys(polly_langs, loc.lang_code))

\* C16 (amended): find_best_voice_match is deterministic, and of several keys
\* matching at the winning tier it answers the one that comes first in the
\* table's own order, the order the dict was written in.
C16_TieBrokenByTableOrder ==
  pc = "back" =>
    IF WinningKeys(polly_langs, loc.lang_code) = {}
      THEN <<loc.voice_id, loc.spoken_lang_code>> = NoMatch
      ELSE <<loc.voice_id, loc.spoken_lang_code>> =
             << polly_langs[FirstPlace(polly_langs, loc.lang_code)][2],
                polly_langs[FirstPlace(polly_langs, loc.lang_code)][1] >>

\* Two keys start with "hi-"; the one written first wins, though it sorts last.
C16_Witness ==
  /\ pc = "back"
  /\ loc.lang_code = "hi"
  /\ Len(polly_langs) = 2
  /\ polly_langs[1][1] = "hi-Latn"
  /\ polly_langs[2][1] = "hi-IN"
  /\ SortsBefore("hi-IN", "hi-Latn")
  /\ loc.spoken_lang_code = "hi-Latn"

(***************************************************************************)
(* Failures before and after the transcript, under Spec.                   *)
(***************************************************************************)
\* Text=translated_text at line 134 and text at line 141: what the sentiment
\* classifier and the reply generator are handed, when about to be called.
ClassifierInput == IF pc = "sentiment" THEN loc.translated_text ELSE None

GeneratorInput == IF pc = "reply" THEN loc.translated_text ELSE None

\* C17: when language detection fails the request goes on with language code
\* "en": no forward translation call is made, and the sentiment classifier and
\* the reply generator both receive the transcript text unchanged.
C17_DetectionFailureContinuesInEnglish ==
  "detect" \in failures =>
    /\ loc.lang_code = "en"
    /\ \A i \in 1..Len(translate_calls) : translate_calls[i].kind # "forward"
    /\ ClassifierInput \in {None, loc.transcript_text}
    /\ GeneratorInput \in {None, loc.transcript_text}
    /\ (loc.reply # None /\ "reply" \notin failures) =>
         loc.reply = Strip(GeneratedText(loc.transcript_text, loc.sentiment))
    /\ Responded => (response.statusCode = 200 \/ "synthesize" \in failures)

\* Only the detection failed: the reply was generated from the transcript.
C17_Witness ==
  /\ Done
  /\ failures = {"detect"}
  /\ loc.transcript_text = "hola"
  /\ loc.translated_text = "hola"
  /\ loc.sentiment = "POSITIVE"
  /\ loc.reply = "It sounds POSITIVE: hola"
  /\ response.statusCode = 200

\* C18: when the upload or the job submission fails the handler answers 500
\* without ever polling the job, and language detection, translation,
\* sentiment, reply generation and synthesis are not invoked.
C18_SubmissionFailureIs500 ==
  failures \cap {"upload", "submit"} # {} =>
    /\ Responded
    /\ response = ErrorResponse(500, "Transcription failed")
    /\ job = NoJob
    /\ poll = NoPoll
    /\ poll_outcome = None
    /\ translate_calls = <<>>
    /\ polly_calls = <<>>
    /\ failures \subseteq {"upload", "submit", "unlink"}
    /\ loc.transcript_text = None
    /\ loc.lang_code = None
    /\ loc.sentiment = None
    /\ loc.reply = None
    /\ loc.audio_base64 = None

\* The upload went through and start_transcription_job raised.
C18_Witness ==
  /\ Done
  /\ "submit" \in failures
  /\ s3_objects # {}
  /\ job = NoJob
  /\ poll_outcome = None
  /\ response.statusCode = 500

\* The stages in the order of the handler's text; the polling loop is one stage.
StageOrder ==
  << {"start"}, {"stage"}, {"upload", "submit"},
     {"poll_check", "poll_sleep", "poll_result", "polled"},
     {"detect"}, {"forward"}, {"sentiment"}, {"reply"}, {"voice"}, {"back"},
     {"synthesize"}, {"finally"}, {"done"} >>

StageNumber(at) == CHOOSE n \in 1..Len(StageOrder) : at \in StageOrder[n]

\* A step moves to a later stage, or stays in its own; a step inside a stage
\* other than polling leaves it.
StepsForward ==
  /\ StageNumber(pc') >= StageNumber(pc)
  /\ (pc' # pc /\ StageNumber(pc') = StageNumber(pc)) =>
       \/ pc = "upload" /\ pc' = "submit"
       \/ pc \in {"poll_check", "poll_sleep", "poll_result"}
  /\ pc = "poll_result" => pc' \in {"poll_result", "polled"}
  /\ job' # job =>
       \/ pc = "submit" /\ job = NoJob /\ job'.status = "IN_PROGRESS"
       \/ Polling /\ job.status = "IN_PROGRESS" /\ job'.status \in {"COMPLETED", "FAILED"}
  /\ loc'.lang_code # loc.lang_code => pc = "detect" /\ loc.lang_code = None
  /\ loc'.sentiment # loc.sentiment => pc = "sentiment" /\ loc.sentiment = None
  /\ loc'.reply # loc.reply => pc = "reply" /\ loc.reply = None
  /\ translate_calls' # translate_calls =>
       /\ pc \in {"forward", "back"}
       /\ Len(translate_calls') = Len(translate_calls) + 1
  /\ polly_calls' # polly_calls =>
       /\ pc = "synthesize"
       /\ Len(polly_calls') = Len(polly_calls) + 1

CallsBounded ==
  /\ Len(translate_calls) <= 2
  /\ \A i \in 1..Len(translate_calls) :
       IF translate_calls[i].kind = "forward" THEN i = 1
       ELSE i = Len(translate_calls) /\ translate_calls[i].kind \in {"back", "fallback"}
  /\ Len(polly_calls) <= 1
  /\ s3_objects \subseteq {UploadKey(JobName, loc.file_extension)}

\* C19: within one invocation the stages run in the order stage audio, upload
\* and submit, poll, detect language, forward-translate, sentiment, reply,
\* match voice, back/fallback-translate, synthesize, and none is re-entered:
\* at most one job is submitted, detection, sentiment, reply generation and
\* synthesis are each called at most once, and the translator at most twice,
\* one forward call and one of back-translation or fallback translation.
C19_StagesInOrderOnce == []CallsBounded /\ [][StepsForward]_vars

\* Hindi: the translator was called twice, forward and back.
C19_Witness ==
  /\ Done
  /\ response.statusCode = 200
  /\ Len(translate_calls) = 2
  /\ translate_calls[1].kind = "forward"
  /\ translate_calls[2].kind = "back"
  /\ Len(polly_calls) = 1
  /\ job.status = "COMPLETED"

(***************************************************************************)
(* One invocation to its end.  The handler is one synchronous thread: past *)
(* the request checks, which are a single step, each of its steps is taken *)
(* once it can be; the engine owes nothing.  The requests are base64 and   *)
(* absent bodies, plain and multipart.                                     *)
(***************************************************************************)
FairEvents ==
  {e \in Events :
     /\ e.body.wire # "raw"
     /\ e.body.audio.head # NoiseHead
     /\ e.headers \in {<<>>, << <<"content-type", CT_MULTIPART_XYZ>> >>}}

FairInit == Init /\ event \in FairEvents

\* The steps of the handler after the request checks.
Proceeds ==
  \/ StageAudio
  \/ Upload
  \/ StartJob
  \/ PollStatus
  \/ PollSleep
  \/ PollResult
  \/ CheckTranscript
  \/ DetectLanguage
  \/ TranslateForward
  \/ DetectSentiment
  \/ GenerateReply
  \/ MatchVoice
  \/ TranslateReply
  \/ Synthesize
  \/ Finally

FairSpec == FairInit /\ [][Next]_vars /\ WF_vars(Proceeds)

\* The handler has no response before it returns; the response it returns is
\* a 200, 400 or 500 with the CORS headers, and the 500 of lines 212-214 for
\* an exception no stage caught.
ResponseWellFormed ==
  /\ Responded <=> response # NoResponse
  /\ Responded =>
       /\ response.statusCode \in {200, 400, 500}
       /\ response.cors = CORS
       /\ response.contentType =
            IF response.statusCode = 200 THEN "audio/mpeg" ELSE "application/json"
  /\ (Responded /\ "stage" \in failures) =>
       response \in {ErrorResponse(500, "Internal server error: write"),
                     ErrorResponse(500, "Internal server error: create")}

\* The response is set once, on the way to the finally block, and the finally
\* block is the end.
RespondsOnce ==
  /\ response' # response => response = NoResponse /\ pc' = "finally"
  /\ pc = "finally" => pc' \in {"finally", "done"}
  /\ pc = "done" => pc' = "done"

\* C20: every invocation ends by returning exactly one response, of status 200,
\* 400 or 500 and with the CORS headers; no exception of a stage or a
\* collaborator leaves the handler, and one that no stage handles gives a 500.
C20_OneResponseNoEscape ==
  /\ []ResponseWellFormed
  /\ [][RespondsOnce]_vars
  /\ (pc # "start") ~> Done

\* The temporary file could not be written: the handler's own except clause
\* answered.
C20_Witness ==
  /\ Done
  /\ failures = {"stage"}
  /\ response = ErrorResponse(500, "Internal server error: write")
  /\ response.cors.origin = "*"

====
